---- MODULE Spec2Model ----
(***************************************************************************)
(* State-machine model of the Workik AI test-case generator client:        *)
(*   App.jsx               step navigation, credential, reset              *)
(*   FileExplorer.jsx      lazy file tree, expansion, file selection       *)
(*   TestCaseGenerator.jsx per-file generation pipeline with fallbacks     *)
(*   TestCaseViewer.jsx    push of the generated code to a branch          *)
(* Strings are sequences of string pieces, so "" is the empty sequence and *)
(* suffix / substring tests are computed on the pieces.  File names are    *)
(* sequences of one-character pieces.                                      *)
(***************************************************************************)
EXTENDS Integers, Sequences, FiniteSets, TLC

VARIABLES
    \* App.jsx state
    currentStep, githubToken, selectedRepo, appSelectedFiles,
    appTestCaseSummaries, generatedCode, storedToken,
    \* TestCaseGenerator.jsx state of the mounted instance
    currentFileIndex, testCaseSummaries, isGenerating, genError,
    generatedTestCases,
    \* the startGeneration invocations (async frames), in start order
    runs,
    \* App.jsx loading overlay flag (set by the components)
    isLoading,
    \* FileExplorer.jsx state of the mounted instance
    fileTree, selectedFiles, expandedFolders, searchTerm, filterType, feError,
    \* whether the mount effect of the FileExplorer instance has run
    feEffectRan,
    \* listing requests awaiting their response, in issue order
    listReqs,
    \* directories whose listing response has been merged into the tree
    mergedDirs,
    \* what the last click on a tree row was dispatched to
    lastClick,
    \* TestCaseViewer.jsx state of the mounted instance
    pushStatus, pushMessage, branchName,
    \* the pushToGitHub invocations (async frames), in start order
    pushes

appVars == <<currentStep, githubToken, selectedRepo, appSelectedFiles,
             appTestCaseSummaries, generatedCode, storedToken>>
genVars == <<currentFileIndex, testCaseSummaries, isGenerating, genError,
             generatedTestCases>>
feVars == <<fileTree, selectedFiles, expandedFolders, searchTerm, filterType,
            feError, feEffectRan, mergedDirs, lastClick>>
viewVars == <<pushStatus, pushMessage, branchName>>
vars == <<appVars, genVars, runs, isLoading, feVars, listReqs, viewVars,
          pushes>>

----------------------------------------------------------------------------
\* Bounds of the model

\* startGeneration invocations per behaviour
MaxRuns == 2
\* files in one selection handed to the generator
MaxFiles == 2
\* test cases in one backend response
MaxCases == 2
\* listing requests awaiting their response at one time
MaxListReqs == 2
\* pushToGitHub invocations whose frame exists at one time
MaxPushes == 2

----------------------------------------------------------------------------
\* Generic helpers

Last(s) == s[Len(s)]

\* String.prototype.endsWith on piece sequences
EndsWith(s, suf) ==
    /\ Len(suf) <= Len(s)
    /\ SubSeq(s, Len(s) - Len(suf) + 1, Len(s)) = suf

\* String.prototype.includes on piece sequences
Includes(s, sub) ==
    \E k \in 0..(Len(s) - Len(sub)) : SubSeq(s, k + 1, k + Len(sub)) = sub

RemoveAt(s, k) == SubSeq(s, 1, k - 1) \o SubSeq(s, k + 1, Len(s))

\* variant: a state setter of an unmounted instance reaches the mounted one
SetIfUnmounted(mounted, new, old) == new

\* setState of a component instance takes effect only while it is mounted
SetIf(mounted, new, old) == IF mounted THEN new ELSE old

\* decimal rendering of the small numbers the program prints
NumStr(n) == <<"0", "1", "2", "3", "4", "5", "6", "7", "8", "9">>[n + 1]

----------------------------------------------------------------------------
\* The remote repository and the extension tables

codeExtensions ==
    { <<".", "j", "s">>, <<".", "j", "s", "x">>, <<".", "t", "s">>,
      <<".", "t", "s", "x">>, <<".", "p", "y">>, <<".", "j", "a", "v", "a">>,
      <<".", "c", "p", "p">>, <<".", "c">>, <<".", "c", "s">>,
      <<".", "p", "h", "p">>, <<".", "r", "b">>, <<".", "g", "o">> }

testExtensions ==
    { <<".", "t", "e", "s", "t", ".", "j", "s">>,
      <<".", "s", "p", "e", "c", ".", "j", "s">>,
      <<".", "t", "e", "s", "t", ".", "t", "s">>,
      <<".", "s", "p", "e", "c", ".", "t", "s">>,
      <<".", "t", "e", "s", "t", ".", "p", "y">> }

\* A raw entry of a contents listing (GET /repos/{full_name}/contents/{path})
RawItem(n, p, t, u) == [name |-> n, path |-> p, type |-> t, download_url |-> u]

\* The listing the service returns for each directory path ("" is the root),
\* in the order the service sends it.
RepoListing(p) ==
    CASE p = "" ->
            << RawItem(<<"a", ".", "j", "s">>, "a.js", "file", TRUE),
               RawItem(<<"s", "r", "c">>, "src", "dir", FALSE),
               RawItem(<<"d", "o", "c", "s">>, "docs", "dir", FALSE) >>
      [] p = "src" ->
            << RawItem(<<"R", ".", "m", "d">>, "src/R.md", "file", TRUE),
               RawItem(<<"b", ".", "m", "d">>, "src/b.md", "file", TRUE),
               RawItem(<<"l", "i", "b">>, "src/lib", "dir", FALSE) >>
      [] p = "docs" ->
            << RawItem(<<"l", ".", "j", "s">>, "docs/l.js", "symlink", FALSE) >>
      [] OTHER -> << >>

----------------------------------------------------------------------------
\* String order and case mapping

Lowers == << "a", "b", "c", "d", "e", "f", "g", "h", "i", "j", "k", "l", "m",
             "n", "o", "p", "q", "r", "s", "t", "u", "v", "w", "x", "y", "z" >>
Uppers == << "A", "B", "C", "D", "E", "F", "G", "H", "I", "J", "K", "L", "M",
             "N", "O", "P", "Q", "R", "S", "T", "U", "V", "W", "X", "Y", "Z" >>

IsUpper(c) == \E k \in 1..Len(Uppers) : Uppers[k] = c

\* String.prototype.toLowerCase, one character
LowerChar(c) ==
    IF IsUpper(c) THEN Lowers[CHOOSE k \in 1..Len(Uppers) : Uppers[k] = c] ELSE c

toLowerCase(s) == [k \in 1..Len(s) |-> LowerChar(s[k])]

\* Primary collation weight: punctuation before letters, letters by alphabet
\* position whatever their case.
PrimaryWeight(c) ==
    LET l == LowerChar(c)
    IN  IF \E k \in 1..Len(Lowers) : Lowers[k] = l
        THEN CHOOSE k \in 1..Len(Lowers) : Lowers[k] = l
        ELSE 0

RECURSIVE ComparePrimary(_, _)
ComparePrimary(a, b) ==
    IF a = << >> /\ b = << >> THEN 0
    ELSE IF a = << >> THEN -1
    ELSE IF b = << >> THEN 1
    ELSE IF PrimaryWeight(Head(a)) < PrimaryWeight(Head(b)) THEN -1
    ELSE IF PrimaryWeight(Head(a)) > PrimaryWeight(Head(b)) THEN 1
    ELSE ComparePrimary(Tail(a), Tail(b))

\* Tertiary (case) difference of two strings of equal primary weights:
\* lower case sorts before upper case.
RECURSIVE CompareCase(_, _)
CompareCase(a, b) ==
    IF a = << >> \/ b = << >> THEN 0
    ELSE IF ~IsUpper(Head(a)) /\ IsUpper(Head(b)) THEN -1
    ELSE IF IsUpper(Head(a)) /\ ~IsUpper(Head(b)) THEN 1
    ELSE CompareCase(Tail(a), Tail(b))

\* String.prototype.localeCompare (default collation)
localeCompare(a, b) ==
    IF ComparePrimary(a, b) # 0 THEN ComparePrimary(a, b) ELSE CompareCase(a, b)

----------------------------------------------------------------------------
\* FileExplorer.processFileTree

\* variant: the comparator looks at the names only
compareItemsByName(a, b) == localeCompare(a.name, b.name)

\* the comparator handed to Array.prototype.sort
compareItems(a, b) ==
    IF a.type = b.type THEN localeCompare(a.name, b.name)
    ELSE IF a.type = "dir" THEN -1 ELSE 1

\* insert x into the sorted prefix s, moving left past every element that
\* compares greater than x (insertion sort, the engine's sort for short arrays)
RECURSIVE InsertSorted(_, _)
InsertSorted(s, x) ==
    IF s = << >> THEN << x >>
    ELSE IF compareItems(Last(s), x) > 0
         THEN Append(InsertSorted(SubSeq(s, 1, Len(s) - 1), x), Last(s))
         ELSE Append(s, x)

RECURSIVE SortItems(_)
SortItems(s) ==
    IF s = << >> THEN << >>
    ELSE InsertSorted(SortItems(SubSeq(s, 1, Len(s) - 1)), Last(s))

isCodeFileName(name) == \E ext \in codeExtensions : EndsWith(name, ext)
isTestFileName(name) == \E ext \in testExtensions : EndsWith(name, ext)

\* one processedItem; children is [] for a directory and null otherwise
\* (hasChildren = FALSE models null)
processItem(item, basePath) ==
    [ name |-> item.name, path |-> item.path, type |-> item.type,
      download_url |-> item.download_url,
      fullPath |-> IF basePath # << >> THEN basePath \o <<"/">> \o item.name
                   ELSE item.name,
      isCodeFile |-> isCodeFileName(item.name),
      isTestFile |-> isTestFileName(item.name),
      hasChildren |-> (item.type = "dir"),
      children |-> << >> ]

\* variant: directories are left out of the processed listing
processFileTreeFilesOnly(items, basePath) ==
    SelectSeq(SortItems([k \in 1..Len(items) |-> processItem(items[k], basePath)]),
              LAMBDA it : it.type # "dir")

processFileTree(items, basePath) ==
    SortItems([k \in 1..Len(items) |-> processItem(items[k], basePath)])


\* every processed item the explorer can ever show: the listing of directory
\* p (fullPath base) and, recursively, of the directories in it
RECURSIVE ItemsUnder(_, _)
ItemsUnder(p, base) ==
    LET here == processFileTree(RepoListing(p), base)
        set  == { here[k] : k \in 1..Len(here) }
    IN  set \cup UNION { ItemsUnder(it.path, it.fullPath) :
                             it \in { x \in set : x.type = "dir" } }

AllItems == ItemsUnder("", << >>)

\* variant: the click handler does not look at isCodeFile
ClickTargetAnyFile(item) ==
    IF item.type = "dir" THEN "toggleFolder" ELSE "toggleFileSelection"

\* renderFileItem's onClick: what a click on the item does
ClickTarget(item) ==
    IF item.type = "dir" THEN "toggleFolder"
    ELSE IF item.isCodeFile THEN "toggleFileSelection"
    ELSE "ignored"

SelectableItems == { it \in AllItems : ClickTarget(it) = "toggleFileSelection" }

\* the selections FileExplorer can hand to App.handleFilesSelected: non-empty
\* sequences of selectable items with pairwise distinct paths
Selections ==
    { s \in UNION { [1..n -> SelectableItems] : n \in 1..MaxFiles } :
        \A a, b \in 1..Len(s) : a # b => s[a].path # s[b].path }

----------------------------------------------------------------------------
\* FileExplorer: tree, expansion, selection

\* the directory whose listing holds path p ("" for a root entry)
ParentDir(p) ==
    LET dirs == {""} \cup { it.path : it \in { x \in AllItems : x.type = "dir" } }
    IN  CHOOSE d \in dirs :
            \E k \in 1..Len(RepoListing(d)) : RepoListing(d)[k].path = p

\* b is a proper ancestor directory of a
RECURSIVE IsAncestor(_, _)
IsAncestor(b, a) ==
    IF a = "" THEN FALSE
    ELSE ParentDir(a) = b \/ IsAncestor(b, ParentDir(a))

\* fetchFolderContents.updateTree: path-matched substitution of the children
RECURSIVE updateTree(_, _, _)
updateTree(items, folderPath, processedChildren) ==
    [k \in 1..Len(items) |->
        IF items[k].path = folderPath
        THEN [items[k] EXCEPT !.hasChildren = TRUE,
                              !.children = processedChildren]
        ELSE IF items[k].hasChildren
        THEN [items[k] EXCEPT
                 !.children = updateTree(@, folderPath, processedChildren)]
        ELSE items[k]]

\* the paths of the nodes for which updateTree's map callback returns a new
\* object instead of the item it was given: the item whose path matches,
\* and every item whose children is truthy, which an array is even when it
\* is empty, so every directory (children is null for the other entries)
RECURSIVE updateTreeRebuilt(_, _)
updateTreeRebuilt(items, folderPath) ==
    UNION { IF items[k].path = folderPath THEN {items[k].path}
            ELSE IF items[k].hasChildren
            THEN {items[k].path}
                     \cup updateTreeRebuilt(items[k].children, folderPath)
            ELSE {} :
            k \in 1..Len(items) }

\* variant: the file is pushed without looking for it first
toggleFileSelectionPush(selected, file) == Append(selected, file)

\* variant: a newly selected file is put first
toggleFileSelectionUnshift(selected, file) ==
    IF \E k \in 1..Len(selected) : selected[k].path = file.path
    THEN RemoveAt(selected,
                  CHOOSE k \in 1..Len(selected) :
                      /\ selected[k].path = file.path
                      /\ \A j \in 1..(k - 1) : selected[j].path # file.path)
    ELSE <<file>> \o selected

\* toggleFileSelection's new array
toggleFileSelection(selected, file) ==
    IF \E k \in 1..Len(selected) : selected[k].path = file.path
    THEN RemoveAt(selected,
                  CHOOSE k \in 1..Len(selected) :
                      /\ selected[k].path = file.path
                      /\ \A j \in 1..(k - 1) : selected[j].path # file.path)
    ELSE Append(selected, file)

\* filterFiles
filterFiles(items, term, type) ==
    SelectSeq(items,
              LAMBDA item :
                  LET matchesSearch ==
                          Includes(toLowerCase(item.name), toLowerCase(term))
                  IN  CASE type = "code" -> matchesSearch /\ item.isCodeFile
                        [] type = "test" -> matchesSearch /\ item.isTestFile
                        [] OTHER -> matchesSearch)

\* the rows renderFileItem draws for items: each item and, under an expanded
\* directory with children, the rows of its children
RECURSIVE RowsOf(_, _)
RowsOf(items, expanded) ==
    UNION { {items[k]} \cup
            (IF items[k].type = "dir" /\ items[k].path \in expanded
                /\ items[k].hasChildren
             THEN RowsOf(items[k].children, expanded) ELSE {}) :
            k \in 1..Len(items) }

\* the rows on screen: none while the error or the loading text is shown
VisibleRows ==
    IF currentStep # "files" \/ feError # << >> \/ fileTree = << >> THEN {}
    ELSE RowsOf(filterFiles(fileTree, searchTerm, filterType), expandedFolders)

\* the nodes of a tree
RECURSIVE NodesOf(_)
NodesOf(items) ==
    UNION { {items[k]} \cup NodesOf(items[k].children) : k \in 1..Len(items) }

\* the initial useState values of FileExplorer
FeInit ==
    /\ fileTree = << >>
    /\ selectedFiles = << >>
    /\ expandedFolders = {}
    /\ searchTerm = << >>
    /\ filterType = "all"
    /\ feError = << >>
    /\ feEffectRan = FALSE
    /\ mergedDirs = {}
    /\ lastClick = "none"

\* a fresh FileExplorer instance replaces the state of the previous one
FeMount ==
    /\ fileTree' = << >>
    /\ selectedFiles' = << >>
    /\ expandedFolders' = {}
    /\ searchTerm' = << >>
    /\ filterType' = "all"
    /\ feError' = << >>
    /\ feEffectRan' = FALSE
    /\ mergedDirs' = {}
    /\ lastClick' = "none"

\* the requests of an unmounted instance are still answered
Orphaned(reqs) == [k \in 1..Len(reqs) |-> [reqs[k] EXCEPT !.mounted = FALSE]]

\* a listing request: which call issued it, for which directory, and the
\* fileTree its closure holds
ListReq(kind, path, fullPath, tree) ==
    [kind |-> kind, path |-> path, fullPath |-> fullPath, tree |-> tree,
     mounted |-> TRUE]

\* variant: the effect asks for the credential only
FetchRepoContentsTokenOnly ==
    /\ currentStep = "files"
    /\ ~feEffectRan
    /\ feEffectRan' = TRUE
    /\ IF githubToken # ""
       THEN /\ isLoading' = TRUE
            /\ feError' = << >>
            /\ listReqs' = Append(listReqs, ListReq("root", "", << >>, fileTree))
       ELSE UNCHANGED <<isLoading, feError, listReqs>>
    /\ UNCHANGED <<appVars, genVars, runs, fileTree, selectedFiles,
                   expandedFolders, searchTerm, filterType, mergedDirs,
                   lastClick>>
    /\ UNCHANGED <<viewVars, pushes>>

\* useEffect([githubToken, selectedRepo]) -> fetchRepoContents() up to its await
FetchRepoContents ==
    /\ currentStep = "files"
    /\ ~feEffectRan
    /\ feEffectRan' = TRUE
    /\ IF githubToken # "" /\ selectedRepo # "null"
       THEN /\ isLoading' = TRUE
            /\ feError' = << >>
            /\ listReqs' = Append(listReqs, ListReq("root", "", << >>, fileTree))
       ELSE UNCHANGED <<isLoading, feError, listReqs>>
    /\ UNCHANGED <<appVars, genVars, runs, fileTree, selectedFiles,
                   expandedFolders, searchTerm, filterType, mergedDirs,
                   lastClick>>
    /\ UNCHANGED <<viewVars, pushes>>

\* variant: a failed listing of a directory sets the error flag as a failed
\* root listing does
ListingResponseFlagging(k, ok) ==
    /\ k \in 1..Len(listReqs)
    /\ LET req == listReqs[k]
           processed == processFileTree(RepoListing(req.path), req.fullPath)
       IN  /\ listReqs' = RemoveAt(listReqs, k)
           /\ IF req.kind = "root"
              THEN /\ isLoading' = FALSE
                   /\ fileTree' = SetIf(req.mounted /\ ok, processed, fileTree)
                   /\ feError' =
                         SetIf(req.mounted /\ ~ok,
                               <<"Failed to fetch repository contents">>,
                               feError)
                   /\ UNCHANGED mergedDirs
              ELSE /\ fileTree' =
                         SetIf(req.mounted /\ ok,
                               updateTree(req.tree, req.path, processed),
                               fileTree)
                   /\ mergedDirs' =
                         SetIf(req.mounted /\ ok, mergedDirs \cup {req.path},
                               mergedDirs)
                   /\ feError' =
                         SetIf(req.mounted /\ ~ok,
                               <<"Failed to fetch repository contents">>,
                               feError)
                   /\ UNCHANGED isLoading
    /\ UNCHANGED <<appVars, genVars, runs, selectedFiles, expandedFolders,
                   searchTerm, filterType, feEffectRan, lastClick>>
    /\ UNCHANGED <<viewVars, pushes>>

\* the listing request k is answered: with the listing (ok) or not
ListingResponse(k, ok) ==
    /\ k \in 1..Len(listReqs)
    /\ LET req == listReqs[k]
           processed == processFileTree(RepoListing(req.path), req.fullPath)
       IN  /\ listReqs' = RemoveAt(listReqs, k)
           /\ IF req.kind = "root"
              THEN /\ isLoading' = FALSE
                   /\ fileTree' = SetIf(req.mounted /\ ok, processed, fileTree)
                   /\ feError' =
                         SetIf(req.mounted /\ ~ok,
                               <<"Failed to fetch repository contents">>,
                               feError)
                   /\ UNCHANGED mergedDirs
              ELSE /\ fileTree' =
                         SetIf(req.mounted /\ ok,
                               updateTree(req.tree, req.path, processed),
                               fileTree)
                   /\ mergedDirs' =
                         SetIf(req.mounted /\ ok, mergedDirs \cup {req.path},
                               mergedDirs)
                   /\ UNCHANGED <<isLoading, feError>>
    /\ UNCHANGED <<appVars, genVars, runs, selectedFiles, expandedFolders,
                   searchTerm, filterType, feEffectRan, lastClick>>
    /\ UNCHANGED <<viewVars, pushes>>

\* variant: collapsing one directory clears every expanded marker
ToggleFolderCollapseAll(folder) ==
    /\ IF folder.path \in expandedFolders
       THEN /\ expandedFolders' = {}
            /\ UNCHANGED listReqs
       ELSE /\ expandedFolders' = expandedFolders \cup {folder.path}
            /\ IF ~folder.hasChildren \/ Len(folder.children) = 0
               THEN /\ Len(listReqs) < MaxListReqs
                    /\ listReqs' =
                          Append(listReqs,
                                 ListReq("folder", folder.path, folder.fullPath,
                                         fileTree))
               ELSE UNCHANGED listReqs
    /\ UNCHANGED <<fileTree, selectedFiles>>

\* toggleFolder(folder), with fetchFolderContents(folder) up to its await
ToggleFolder(folder) ==
    /\ IF folder.path \in expandedFolders
       THEN /\ expandedFolders' = expandedFolders \ {folder.path}
            /\ UNCHANGED listReqs
       ELSE /\ expandedFolders' = expandedFolders \cup {folder.path}
            /\ IF ~folder.hasChildren \/ Len(folder.children) = 0
               THEN /\ Len(listReqs) < MaxListReqs
                    /\ listReqs' =
                          Append(listReqs,
                                 ListReq("folder", folder.path, folder.fullPath,
                                         fileTree))
               ELSE UNCHANGED listReqs
    /\ UNCHANGED <<fileTree, selectedFiles>>

\* a click on a row of the tree: renderFileItem's onClick
ClickItem(item) ==
    /\ item \in VisibleRows
    /\ lastClick' = ClickTarget(item)
    /\ CASE ClickTarget(item) = "toggleFolder" -> ToggleFolder(item)
         [] ClickTarget(item) = "toggleFileSelection" ->
               /\ selectedFiles' = toggleFileSelection(selectedFiles, item)
               /\ UNCHANGED <<fileTree, expandedFolders, listReqs>>
         [] OTHER ->
               UNCHANGED <<fileTree, selectedFiles, expandedFolders, listReqs>>
    /\ UNCHANGED <<appVars, genVars, runs, isLoading, searchTerm, filterType,
                   feError, feEffectRan, mergedDirs>>
    /\ UNCHANGED <<viewVars, pushes>>

SearchTerms == { << >>, <<"S">> }
FilterTypes == { "all", "code", "test" }

\* the search box
SetSearchTerm(term) ==
    /\ currentStep = "files"
    /\ searchTerm' = term
    /\ UNCHANGED <<appVars, genVars, runs, isLoading, fileTree, selectedFiles,
                   expandedFolders, filterType, feError, feEffectRan,
                   mergedDirs, lastClick, listReqs>>
    /\ UNCHANGED <<viewVars, pushes>>

\* variant: changing the filter type drops the selection
SetFilterTypeClears(type) ==
    /\ currentStep = "files"
    /\ filterType' = type
    /\ selectedFiles' = << >>
    /\ UNCHANGED <<appVars, genVars, runs, isLoading, fileTree,
                   expandedFolders, searchTerm, feError, feEffectRan,
                   mergedDirs, lastClick, listReqs>>
    /\ UNCHANGED <<viewVars, pushes>>

\* the filter drop-down
SetFilterType(type) ==
    /\ currentStep = "files"
    /\ filterType' = type
    /\ UNCHANGED <<appVars, genVars, runs, isLoading, fileTree, selectedFiles,
                   expandedFolders, searchTerm, feError, feEffectRan,
                   mergedDirs, lastClick, listReqs>>
    /\ UNCHANGED <<viewVars, pushes>>

----------------------------------------------------------------------------
\* TestCaseGenerator: responses of the remote calls

\* fetch(file.download_url): 2xx with a body, non-2xx, or a transport error
DirectResponses ==
    { [kind |-> "ok", body |-> << >>],
      [kind |-> "ok", body |-> <<"export const x = 1;">>],
      [kind |-> "http", status |-> "404"],
      [kind |-> "network"] }

\* the j-th test case of a backend response
ServerCase(j) ==
    [input |-> <<"in", NumStr(j)>>, output |-> <<"out", NumStr(j)>>]

\* POST /generate-testcases: 2xx with test_cases, 2xx JSON without the
\* field, non-2xx, transport error, 2xx with a body that is not JSON
GenResponses ==
    { [kind |-> "ok", test_cases |-> [j \in 1..n |-> ServerCase(j)]] :
          n \in 0..MaxCases }
    \cup { [kind |-> "nofield"], [kind |-> "http", status |-> "500"],
           [kind |-> "network"], [kind |-> "parse"] }

\* outcome of an awaited call: a returned value or a thrown error
Return(v) == [threw |-> FALSE, value |-> v]
Throw(m)  == [threw |-> TRUE, value |-> m]

\* identifiers in scope inside the TestCaseGenerator component: its props
\* and its state
GeneratorScope ==
    { "selectedFiles", "onTestCasesGenerated", "onCodeGenerated",
      "setIsLoading", "currentFileIndex", "testCaseSummaries", "isGenerating",
      "error", "generatedTestCases" }

\* the placeholder source text of fetchFileContent's catch block
MockContent(fileName, message) ==
    <<"// Mock content for ">> \o fileName
        \o <<" (failed to fetch real content)\n// Error: ">> \o message
        \o <<"\nfunction sampleFunction() {\n  return \"Hello World\";\n}">>

\* the error thrown in fetchFileContent's try block for a direct response,
\* "" when none is thrown
DirectError(resp) ==
    CASE resp.kind = "ok" -> << >>
      [] resp.kind = "http" ->
            <<"Failed to fetch via download_url: ", resp.status>>
      [] OTHER -> <<"Failed to fetch">>

\* variant: the catch block hands on an empty string
fetchFileContentDirectEmpty(file, resp) ==
    IF resp.kind = "ok" THEN Return(resp.body) ELSE Return(<< >>)

\* variant: no catch block, a failed direct fetch propagates to the caller
fetchFileContentDirectThrows(file, resp) ==
    IF resp.kind = "ok" THEN Return(resp.body) ELSE Throw(DirectError(resp))

\* fetchFileContent once the direct fetch has answered: the body, or the
\* placeholder straight from the catch block
fetchFileContentDirect(file, resp) ==
    IF resp.kind = "ok" THEN Return(resp.body)
    ELSE Return(MockContent(file.name, DirectError(resp)))

\* whether fetchFileContent's contents-API branch can build its request:
\* it reads selectedRepo and githubToken, and a read of an identifier that
\* is not in scope throws a ReferenceError inside the try block
ApiBranchRuns == {"selectedRepo", "githubToken"} \subseteq GeneratorScope

\* GET /repos/{full_name}/contents/{path}: 2xx JSON with type and base64
\* content (in lines), 2xx JSON of another shape, non-2xx, transport error
ApiResponses ==
    { [kind |-> "ok", type |-> "file", content |-> <<"eA==", "\n">>],
      [kind |-> "ok", type |-> "file", content |-> << >>],
      [kind |-> "ok", type |-> "dir", content |-> << >>],
      [kind |-> "http", status |-> "403"],
      [kind |-> "network"] }

\* atob of one base64 group
atobGroup(g) == IF g = "eA==" THEN "x" ELSE "?"

\* atob(data.content.replace(/\n/g, ''))
atob(content) ==
    LET groups == SelectSeq(content, LAMBDA g : g # "\n")
    IN  [k \in 1..Len(groups) |-> atobGroup(groups[k])]

\* fetchFileContent once the contents-API call has answered
fetchFileContentApi(file, resp) ==
    CASE resp.kind = "ok" /\ resp.type = "file" /\ resp.content # << >> ->
            Return(atob(resp.content))
      [] resp.kind = "ok" ->
            Return(MockContent(file.name,
                               <<"Invalid file data received from GitHub API">>))
      [] resp.kind = "http" ->
            Return(MockContent(file.name, <<"GitHub API error: ", resp.status>>))
      [] OTHER -> Return(MockContent(file.name, <<"Failed to fetch">>))

\* fetchFileContent for a file without download_url when the contents-API
\* branch cannot run: the ReferenceError lands in the catch block before any
\* request is sent
fetchFileContentNoUrl(file) ==
    Return(MockContent(file.name, <<"selectedRepo is not defined">>))

\* variant: one mock entry short
mockTestCasesShort(fileName) ==
    << [input |-> <<"// Function from ">> \o fileName,
        output |-> <<"\"Mock Result 1\"">>],
       [input |-> <<"// Test case 2 for ">> \o fileName,
        output |-> <<"\"Mock Result 2\"">>],
       [input |-> <<"// Test case 3 for ">> \o fileName,
        output |-> <<"\"Mock Result 3\"">>] >>

\* the mock result set of generateTestCasesForFile's catch block
mockTestCases(fileName) ==
    << [input |-> <<"// Function from ">> \o fileName,
        output |-> <<"\"Mock Result 1\"">>],
       [input |-> <<"// Test case 2 for ">> \o fileName,
        output |-> <<"\"Mock Result 2\"">>],
       [input |-> <<"// Test case 3 for ">> \o fileName,
        output |-> <<"\"Mock Result 3\"">>],
       [input |-> <<"// Test case 4 for ">> \o fileName,
        output |-> <<"\"Mock Result 4\"">>] >>

\* variant: a failed generation call is rethrown instead of replaced
generateTestCasesForFileRethrow(resp, fileName) ==
    CASE resp.kind = "ok" -> Return(resp.test_cases)
      [] resp.kind = "nofield" -> Return(<< >>)
      [] OTHER -> Throw(<<"HTTP error! status: 500">>)

\* generateTestCasesForFile once the backend has answered
generateTestCasesForFile(resp, fileName) ==
    CASE resp.kind = "ok" -> Return(resp.test_cases)
      [] resp.kind = "nofield" -> Return(<< >>)
      [] OTHER -> Return(mockTestCases(fileName))

\* the summary startGeneration builds for one file
MakeSummary(file, testCases) ==
    [ fileName |-> file.name, filePath |-> file.path,
      testCaseCount |-> Len(testCases), status |-> "completed",
      testCases |-> testCases ]


----------------------------------------------------------------------------
\* TestCaseGenerator.startGeneration as a sequence of steps between awaits.
\* A run is one invocation: its closure (files, mounted: whether the state
\* setters of its component instance still take effect), its locals (i,
\* summaries, content), its position pc, and a record of what it did
\* (requests it issued, the answer to the content request and the outcome
\* of the generation call of the current file).  The frame is gone once the
\* function has returned normally.

NoGen == "none"
NoResp == [kind |-> "none"]

NewRun(files) ==
    [ files |-> files, mounted |-> TRUE, i |-> 0, pc |-> "start",
      content |-> << >>, summaries |-> << >>, requests |-> << >>,
      contentResp |-> NoResp, lastGen |-> NoGen ]

CurrentFile(run) == run.files[run.i + 1]

\* variant: the POST is sent a second time
SendGenerateTwice(run, content) ==
    [run EXCEPT !.content = content, !.pc = "awaitGen",
                !.requests = Append(Append(@, <<"generate", run.i>>),
                                    <<"generate", run.i>>)]

\* generateTestCasesForFile up to its await: the POST is sent
SendGenerate(run, content) ==
    [run EXCEPT !.content = content, !.pc = "awaitGen",
                !.requests = Append(@, <<"generate", run.i>>)]

\* the catch and finally blocks of startGeneration
FailRun(run) == [run EXCEPT !.pc = "failed"]

\* loop body for file index i up to the first await that leaves the
\* function: fetchFileContent sends the direct fetch or the contents-API
\* call, or fails before sending anything and hands the placeholder on
BeginFile(run, i) ==
    LET r0   == [run EXCEPT !.i = i, !.lastGen = NoGen,
                            !.contentResp = NoResp]
        file == CurrentFile(r0)
    IN  IF file.download_url
        THEN [r0 EXCEPT !.pc = "awaitDirect",
                        !.requests = Append(@, <<"direct", i>>)]
        ELSE IF ApiBranchRuns
        THEN [r0 EXCEPT !.pc = "awaitApi",
                        !.requests = Append(@, <<"api", i>>)]
        ELSE LET res == fetchFileContentNoUrl(file)
             IN  IF res.threw THEN FailRun(r0) ELSE SendGenerate(r0, res.value)


\* the initial useState values of TestCaseGenerator
GenInit ==
    /\ currentFileIndex = 0
    /\ testCaseSummaries = << >>
    /\ isGenerating = FALSE
    /\ genError = << >>
    /\ generatedTestCases = << >>

\* a fresh TestCaseGenerator instance replaces the state of the previous one
GenMount ==
    /\ currentFileIndex' = 0
    /\ testCaseSummaries' = << >>
    /\ isGenerating' = FALSE
    /\ genError' = << >>
    /\ generatedTestCases' = << >>

\* the instance is unmounted: its runs go on, their setters do nothing more
Unmounted(rs) == [k \in 1..Len(rs) |-> [rs[k] EXCEPT !.mounted = FALSE]]

\* generatedTestCases is an object keyed by path; here its entries in
\* insertion order, a later entry for a path replacing the earlier one
PutCases(obj, path, cases) ==
    IF \E k \in 1..Len(obj) : obj[k].path = path
    THEN [k \in 1..Len(obj) |->
            IF obj[k].path = path THEN [path |-> path, cases |-> cases]
            ELSE obj[k]]
    ELSE Append(obj, [path |-> path, cases |-> cases])

\* Start / Regenerate button: shown while no run of this instance is going on
StartGeneration ==
    /\ currentStep = "generate"
    /\ ~isGenerating
    /\ Len(runs) < MaxRuns
    /\ LET run == BeginFile(NewRun(appSelectedFiles), 0)
       IN  /\ runs' = Append(runs, run)
           /\ isGenerating' = (run.pc # "failed")
           /\ genError' = IF run.pc = "failed"
                          THEN <<"Failed to generate test cases: ">> ELSE << >>
    /\ currentFileIndex' = 0
    /\ testCaseSummaries' = << >>
    /\ generatedTestCases' = << >>
    /\ UNCHANGED <<appVars, isLoading, feVars, listReqs>>
    /\ UNCHANGED <<viewVars, pushes>>

\* what follows fetchFileContent's return inside the loop body
AfterContent(r, res, resp) ==
    LET run == [runs[r] EXCEPT !.contentResp = resp]
    IN  IF res.threw
        THEN /\ runs' = [runs EXCEPT ![r] = FailRun(run)]
             /\ genError' = SetIf(run.mounted,
                                  <<"Failed to generate test cases: ">> \o res.value,
                                  genError)
             /\ isGenerating' = SetIf(run.mounted, FALSE, isGenerating)
        ELSE /\ runs' = [runs EXCEPT ![r] = SendGenerate(run, res.value)]
             /\ UNCHANGED <<genError, isGenerating>>

\* the pending content request of run r is answered
ContentResponse(r) ==
    /\ runs[r].pc \in {"awaitDirect", "awaitApi"}
    /\ \E resp \in (IF runs[r].pc = "awaitDirect" THEN DirectResponses
                                                  ELSE ApiResponses) :
          AfterContent(r, IF runs[r].pc = "awaitDirect"
                          THEN fetchFileContentDirect(CurrentFile(runs[r]), resp)
                          ELSE fetchFileContentApi(CurrentFile(runs[r]), resp),
                       resp)
    /\ UNCHANGED <<appVars, currentFileIndex, testCaseSummaries,
                   generatedTestCases, isLoading, feVars, listReqs>>
    /\ UNCHANGED <<viewVars, pushes>>

\* the generation call of run r is answered: the summary is built, pushed
\* and published, and the run waits for the progress delay
GenerateResponse(r) ==
    /\ runs[r].pc = "awaitGen"
    /\ \E resp \in GenResponses :
          LET run  == runs[r]
              file == CurrentFile(run)
              res  == generateTestCasesForFile(resp, file.name)
          IN  IF res.threw
              THEN /\ runs' = [runs EXCEPT ![r] = FailRun(run)]
                   /\ genError' = SetIf(run.mounted,
                                        <<"Failed to generate test cases: ">>
                                            \o res.value, genError)
                   /\ isGenerating' = SetIf(run.mounted, FALSE, isGenerating)
                   /\ UNCHANGED <<testCaseSummaries, generatedTestCases>>
              ELSE LET summaries == Append(run.summaries,
                                           MakeSummary(file, res.value))
                   IN  /\ runs' = [runs EXCEPT ![r] =
                                     [run EXCEPT !.summaries = summaries,
                                                 !.content = << >>,
                                                 !.contentResp = NoResp,
                                                 !.lastGen = resp.kind,
                                                 !.pc = "delay"]]
                       /\ testCaseSummaries' =
                             SetIf(run.mounted, summaries, testCaseSummaries)
                       /\ generatedTestCases' =
                             SetIf(run.mounted,
                                   PutCases(generatedTestCases, file.path,
                                            res.value),
                                   generatedTestCases)
                       /\ UNCHANGED <<genError, isGenerating>>
    /\ UNCHANGED <<appVars, currentFileIndex, isLoading, feVars, listReqs>>
    /\ UNCHANGED <<viewVars, pushes>>

\* the 500 ms timer of run r fires: next file, or the end of the loop with
\* onTestCasesGenerated(summaries) and the finally block
DelayElapsed(r) ==
    /\ runs[r].pc = "delay"
    /\ LET run == runs[r]
       IN  IF run.i + 1 < Len(run.files)
           THEN LET next == BeginFile(run, run.i + 1)
                IN  /\ runs' = [runs EXCEPT ![r] = next]
                    /\ currentFileIndex' =
                          SetIf(run.mounted, run.i + 1, currentFileIndex)
                    /\ isGenerating' =
                          SetIf(run.mounted /\ next.pc = "failed", FALSE,
                                isGenerating)
                    /\ genError' =
                          SetIf(run.mounted /\ next.pc = "failed",
                                <<"Failed to generate test cases: ">>, genError)
                    /\ UNCHANGED appTestCaseSummaries
           ELSE /\ runs' = RemoveAt(runs, r)
                /\ appTestCaseSummaries' = run.summaries
                /\ isGenerating' = SetIf(run.mounted, FALSE, isGenerating)
                /\ UNCHANGED <<currentFileIndex, genError>>
    /\ UNCHANGED <<currentStep, githubToken, selectedRepo, appSelectedFiles,
                   generatedCode, storedToken, testCaseSummaries,
                   generatedTestCases, isLoading, feVars, listReqs>>
    /\ UNCHANGED <<viewVars, pushes>>

----------------------------------------------------------------------------
\* TestCaseGenerator.generateFinalCode

\* variant: the input is written on both comment lines
StubCodeInputTwice(testCase, index) ==
    <<"  test('Test case ", NumStr(index), "', () => {\n">>
        \o <<"    // Input: ">> \o testCase.input \o <<"\n">>
        \o <<"    // Expected Output: ">> \o testCase.input \o <<"\n">>
        \o <<"    // TODO: Implement test logic\n">>
        \o <<"  });\n\n">>

\* the text appended for one test case (index counts from 1, as printed)
StubCode(testCase, index) ==
    <<"  test('Test case ", NumStr(index), "', () => {\n">>
        \o <<"    // Input: ">> \o testCase.input \o <<"\n">>
        \o <<"    // Expected Output: ">> \o testCase.output \o <<"\n">>
        \o <<"    // TODO: Implement test logic\n">>
        \o <<"  });\n\n">>

RECURSIVE StubsCode(_, _)
StubsCode(testCases, index) ==
    IF index > Len(testCases) THEN << >>
    ELSE StubCode(testCases[index], index) \o StubsCode(testCases, index + 1)

RECURSIVE SummariesCode(_)
SummariesCode(summaries) ==
    IF summaries = << >> THEN << >>
    ELSE <<"// Test cases for ">> \o Head(summaries).fileName \o <<"\n">>
         \o <<"describe('">> \o Head(summaries).fileName \o <<"', () => {\n">>
         \o StubsCode(Head(summaries).testCases, 1)
         \o <<"});\n\n">>
         \o SummariesCode(Tail(summaries))

finalCode(summaries) ==
    <<"// Generated Test Cases\n// Generated by Workik AI Test Generator\n\n">>
        \o SummariesCode(summaries)

\* the initial useState values of TestCaseViewer
ViewInit ==
    /\ pushStatus = ""
    /\ pushMessage = << >>
    /\ branchName = <<"workik-test-cases">>

\* a fresh TestCaseViewer instance replaces the state of the previous one
ViewMount ==
    /\ pushStatus' = ""
    /\ pushMessage' = << >>
    /\ branchName' = <<"workik-test-cases">>

\* variant: the View Test Code button is shown whatever the state of the run
GenerateFinalCodeAnytime ==
    /\ currentStep = "generate"
    /\ generatedCode' = finalCode(testCaseSummaries)
    /\ currentStep' = "view"
    /\ GenMount
    /\ runs' = Unmounted(runs)
    /\ ViewMount
    /\ UNCHANGED <<githubToken, selectedRepo, appSelectedFiles,
                   appTestCaseSummaries, storedToken, isLoading, feVars,
                   listReqs, pushes>>

\* View Test Code button: App.handleCodeGenerated(finalCode)
GenerateFinalCode ==
    /\ currentStep = "generate"
    /\ Len(testCaseSummaries) > 0
    /\ ~isGenerating
    /\ generatedCode' = finalCode(testCaseSummaries)
    /\ currentStep' = "view"
    /\ GenMount
    /\ runs' = Unmounted(runs)
    /\ ViewMount
    /\ UNCHANGED <<githubToken, selectedRepo, appSelectedFiles,
                   appTestCaseSummaries, storedToken, isLoading, feVars,
                   listReqs, pushes>>

----------------------------------------------------------------------------
\* TestCaseViewer: the remote calls of a push and their responses

\* the initial values of the file name and commit message fields
fileName == <<"generated-tests.test.js">>
commitMessage == <<"Add generated test cases by Workik AI">>

\* the initial value of the branch name field, and what the user may enter
DefaultBranchName == <<"workik-test-cases">>
BranchNames == { DefaultBranchName, <<"tests">> }

\* selectedRepo.name of the connected repository
RepoName == <<"name">>

\* GET /repos/{full_name}/git/ref/heads/{default_branch}: 2xx with
\* object.sha, 2xx JSON without object, 2xx that is not JSON, non-2xx,
\* transport error
RefResponses ==
    { [kind |-> "ok", sha |-> "tipsha"], [kind |-> "noobject"],
      [kind |-> "parse"], [kind |-> "http", status |-> "404"],
      [kind |-> "network"] }

\* POST /repos/{full_name}/git/refs: created, ref already exists, another
\* non-2xx, transport error
CreateResponses ==
    { [kind |-> "ok"], [kind |-> "http", status |-> "422"],
      [kind |-> "http", status |-> "403"], [kind |-> "network"] }

\* GET /repos/{full_name}/contents/{fileName}?ref={branchName}: 2xx for a
\* file (with its sha), 2xx JSON without sha (a directory listing), 2xx that
\* is not JSON, non-2xx, transport error
ExistsResponses ==
    { [kind |-> "ok", sha |-> "filesha"], [kind |-> "ok", sha |-> "undefined"],
      [kind |-> "parse"], [kind |-> "http", status |-> "404"],
      [kind |-> "network"] }

\* PUT /repos/{full_name}/contents/{fileName}: 2xx, non-2xx with a message,
\* non-2xx JSON without message, non-2xx that is not JSON, transport error
PutResponses ==
    { [kind |-> "ok"],
      [kind |-> "http", message |-> <<"Invalid request. \"sha\" wasn't supplied.">>],
      [kind |-> "http", message |-> << >>],
      [kind |-> "httpparse"],
      [kind |-> "network"] }

\* JavaScript truthiness of the values a sha can take
Truthy(v) == v \notin {"", "undefined", "null"}

\* btoa(unescape(encodeURIComponent(code)))
btoa(code) == <<"base64(">> \o code \o <<")">>

----------------------------------------------------------------------------
\* TestCaseViewer.createBranchIfNotExists

\* variant: a failed ref read is passed over and the branch is created anyway
defaultBranchShaLenient(resp) ==
    IF resp.kind = "ok" THEN Return(resp.sha) ELSE Return("undefined")

\* what the try block does with the answer to the default-branch ref read:
\* the sha for the branch-create call, or the error it throws
defaultBranchSha(resp) ==
    CASE resp.kind = "ok" -> Return(resp.sha)
      [] resp.kind = "http" -> Throw(<<"Failed to get default branch">>)
      [] resp.kind = "noobject" ->
            Throw(<<"Cannot read properties of undefined (reading 'sha')">>)
      [] resp.kind = "parse" -> Throw(<<"Unexpected token < in JSON">>)
      [] OTHER -> Throw(<<"Failed to fetch">>)

\* what the try block does with the answer to the branch-create call
createBranchResult(resp) ==
    CASE resp.kind = "ok" -> Return("created")
      [] resp.kind = "http" /\ resp.status = "422" -> Return("exists")
      [] resp.kind = "http" -> Throw(<<"Failed to create branch">>)
      [] OTHER -> Throw(<<"Failed to fetch">>)

\* variant: no catch block, and 422 is a failure like any other non-2xx
createBranchIfNotExistsStrict(res) ==
    IF res.threw THEN res
    ELSE IF res.value = "exists" THEN Throw(<<"Failed to create branch">>)
    ELSE Return("undefined")

\* createBranchIfNotExists as its caller sees it, res being the outcome of
\* its try block: the catch block logs the error and the function returns
createBranchIfNotExists(res) == Return("undefined")

----------------------------------------------------------------------------
\* TestCaseViewer.createOrUpdateFile

\* existingFileSha after the existence check
existingFileSha(resp) == IF resp.kind = "ok" THEN resp.sha ELSE "null"

\* variant: the sha field is always written
requestBodyAlwaysSha(code, sha, branch) ==
    [message |-> commitMessage, content |-> btoa(code),
     branch |-> branch, sha |-> sha]

\* the body of the content PUT
requestBody(code, sha, branch) ==
    IF Truthy(sha)
    THEN [message |-> commitMessage, content |-> btoa(code),
          branch |-> branch, sha |-> sha]
    ELSE [message |-> commitMessage, content |-> btoa(code),
          branch |-> branch]

\* variant: a failed PUT is not reported
createOrUpdateFileQuiet(resp) == Return("undefined")

\* createOrUpdateFile once the PUT has answered
createOrUpdateFile(resp) ==
    CASE resp.kind = "ok" -> Return("undefined")
      [] resp.kind = "http" ->
            Throw(IF resp.message # << >> THEN resp.message
                  ELSE <<"Failed to create/update file">>)
      [] resp.kind = "httpparse" -> Throw(<<"Unexpected token < in JSON">>)
      [] OTHER -> Throw(<<"Failed to fetch">>)

----------------------------------------------------------------------------
\* TestCaseViewer.pushToGitHub as a sequence of steps between awaits.  A push
\* is one invocation: its closure (code, branch, mounted), its position pc,
\* the requests it has sent, the responses it has seen and what it logged.
\* The record of a returned invocation is dropped when the next one starts.

\* the requests of a push
GetRef == [op |-> "getRef"]
CreateRef(branch, sha) ==
    [op |-> "createRef", ref |-> <<"refs/heads/">> \o branch, sha |-> sha]
GetContents(branch) == [op |-> "getContents", ref |-> branch]
PutContents(body) == [op |-> "putContents", body |-> body]

NewPush(code, branch) ==
    [ code |-> code, branch |-> branch, mounted |-> TRUE, pc |-> "awaitRef",
      requests |-> <<GetRef>>, refResp |-> NoResp, createResp |-> NoResp,
      existsResp |-> NoResp, putResp |-> NoResp, putBody |-> NoResp,
      logged |-> << >> ]

\* variant: the button stays enabled while a push is going on
PushToGitHubWhilePushing ==
    /\ currentStep = "view"
    /\ githubToken # ""
    /\ LET live == SelectSeq(pushes, LAMBDA p : p.pc # "done")
       IN  /\ Len(live) < MaxPushes
           /\ pushes' = Append(live, NewPush(generatedCode, branchName))
    /\ pushStatus' = "pushing"
    /\ pushMessage' = << >>
    /\ isLoading' = TRUE
    /\ UNCHANGED <<appVars, genVars, runs, feVars, listReqs, branchName>>

\* Push Test Cases to GitHub button, up to the first await
PushToGitHub ==
    /\ currentStep = "view"
    /\ pushStatus # "pushing"
    /\ githubToken # ""
    /\ LET live == SelectSeq(pushes, LAMBDA p : p.pc # "done")
       IN  /\ Len(live) < MaxPushes
           /\ pushes' = Append(live, NewPush(generatedCode, branchName))
    /\ pushStatus' = "pushing"
    /\ pushMessage' = << >>
    /\ isLoading' = TRUE
    /\ UNCHANGED <<appVars, genVars, runs, feVars, listReqs, branchName>>

\* pushToGitHub after createBranchIfNotExists has come back with res
AfterBranch(k, push, res) ==
    IF res.threw
    THEN /\ pushes' = [pushes EXCEPT ![k] = [push EXCEPT !.pc = "done"]]
         /\ pushStatus' = SetIf(push.mounted, "error", pushStatus)
         /\ pushMessage' = SetIf(push.mounted,
                                 <<"Failed to push to GitHub: ">> \o res.value,
                                 pushMessage)
         /\ isLoading' = FALSE
    ELSE /\ pushes' = [pushes EXCEPT ![k] =
                         [push EXCEPT !.pc = "awaitExists",
                                      !.requests =
                                          Append(@, GetContents(push.branch))]]
         /\ UNCHANGED <<pushStatus, pushMessage, isLoading>>

\* the default-branch ref read of push k is answered
RefResponse(k) ==
    /\ pushes[k].pc = "awaitRef"
    /\ \E resp \in RefResponses :
          LET sha  == defaultBranchSha(resp)
              push == [pushes[k] EXCEPT !.refResp = resp]
          IN  IF sha.threw
              THEN AfterBranch(k, [push EXCEPT !.logged = Append(@, sha.value)],
                               createBranchIfNotExists(sha))
              ELSE /\ pushes' = [pushes EXCEPT ![k] =
                                   [push EXCEPT
                                       !.pc = "awaitCreate",
                                       !.requests =
                                           Append(@, CreateRef(push.branch,
                                                               sha.value))]]
                   /\ UNCHANGED <<pushStatus, pushMessage, isLoading>>
    /\ UNCHANGED <<appVars, genVars, runs, feVars, listReqs, branchName>>

\* the branch-create call of push k is answered
CreateResponse(k) ==
    /\ pushes[k].pc = "awaitCreate"
    /\ \E resp \in CreateResponses :
          LET res  == createBranchResult(resp)
              push == [pushes[k] EXCEPT
                          !.createResp = resp,
                          !.logged = IF res.threw THEN Append(@, res.value)
                                     ELSE @]
          IN  AfterBranch(k, push, createBranchIfNotExists(res))
    /\ UNCHANGED <<appVars, genVars, runs, feVars, listReqs, branchName>>

\* the existence check of push k is answered: the PUT is sent
ExistsResponse(k) ==
    /\ pushes[k].pc = "awaitExists"
    /\ \E resp \in ExistsResponses :
          LET push == pushes[k]
              body == requestBody(push.code, existingFileSha(resp),
                                  push.branch)
          IN  pushes' = [pushes EXCEPT ![k] =
                           [push EXCEPT !.pc = "awaitPut",
                                        !.existsResp = resp,
                                        !.putBody = body,
                                        !.requests =
                                            Append(@, PutContents(body))]]
    /\ UNCHANGED <<appVars, genVars, runs, feVars, listReqs, viewVars,
                   isLoading>>

\* the content PUT of push k is answered: pushToGitHub's success path or
\* its catch block, then its finally block
PutResponse(k) ==
    /\ pushes[k].pc = "awaitPut"
    /\ \E resp \in PutResponses :
          LET push == pushes[k]
              res  == createOrUpdateFile(resp)
          IN  /\ pushes' = [pushes EXCEPT ![k] =
                              [push EXCEPT !.pc = "done", !.putResp = resp]]
              /\ pushStatus' =
                    SetIf(push.mounted,
                          IF res.threw THEN "error" ELSE "success", pushStatus)
              /\ pushMessage' =
                    SetIf(push.mounted,
                          IF res.threw
                          THEN <<"Failed to push to GitHub: ">> \o res.value
                          ELSE <<"Successfully pushed test cases to ">>
                                   \o RepoName \o <<"/">> \o push.branch,
                          pushMessage)
              /\ isLoading' = FALSE
    /\ UNCHANGED <<appVars, genVars, runs, feVars, listReqs, branchName>>

\* the branch name field is edited
SetBranchName(name) ==
    /\ currentStep = "view"
    /\ branchName' = name
    /\ UNCHANGED <<appVars, genVars, runs, isLoading, feVars, listReqs,
                   pushStatus, pushMessage, pushes>>

----------------------------------------------------------------------------
\* App.jsx

Token == "ghp_token"
Repo == "owner/name"

\* GitHubAuth.handleRepoSelect -> App.handleAuthSuccess(token, repo)
HandleAuthSuccess ==
    /\ currentStep = "auth"
    /\ githubToken' = Token
    /\ selectedRepo' = Repo
    /\ storedToken' = Token
    /\ currentStep' = "files"
    /\ FeMount
    /\ UNCHANGED <<appSelectedFiles, appTestCaseSummaries, generatedCode,
                   genVars, runs, isLoading, listReqs>>
    /\ UNCHANGED <<viewVars, pushes>>

\* FileExplorer's Generate Test Cases button -> App.handleFilesSelected(files)
HandleFilesSelected(files) ==
    /\ currentStep = "files"
    /\ Len(files) > 0
    /\ appSelectedFiles' = files
    /\ currentStep' = "generate"
    /\ GenMount
    /\ FeMount
    /\ listReqs' = Orphaned(listReqs)
    /\ UNCHANGED <<githubToken, selectedRepo, appTestCaseSummaries,
                   generatedCode, storedToken, runs, isLoading>>
    /\ UNCHANGED <<viewVars, pushes>>

\* Reset button (shown on every step but auth) -> App.handleReset
HandleReset ==
    /\ currentStep # "auth"
    /\ currentStep' = "auth"
    /\ githubToken' = ""
    /\ selectedRepo' = "null"
    /\ appSelectedFiles' = << >>
    /\ appTestCaseSummaries' = << >>
    /\ generatedCode' = << >>
    /\ storedToken' = ""
    /\ GenMount
    /\ runs' = Unmounted(runs)
    /\ FeMount
    /\ listReqs' = Orphaned(listReqs)
    /\ ViewMount
    /\ pushes' = Unmounted(pushes)
    /\ UNCHANGED isLoading

\* App after construction and its mount effect: a persisted credential
\* moves it to the files step
AppInit ==
    /\ storedToken \in {"", Token}
    /\ githubToken = storedToken
    /\ currentStep = IF storedToken # "" THEN "files" ELSE "auth"
    /\ selectedRepo = "null"
    /\ appSelectedFiles = << >>
    /\ appTestCaseSummaries = << >>
    /\ generatedCode = << >>

----------------------------------------------------------------------------
\* The generation pipeline with the selection as an input: FileExplorer can
\* hand over a selection once a repository is connected.

Init ==
    /\ AppInit
    /\ GenInit
    /\ runs = << >>
    /\ isLoading = FALSE
    /\ FeInit
    /\ listReqs = << >>
    /\ ViewInit
    /\ pushes = << >>

NextPipeline ==
    \/ HandleAuthSuccess
    \/ \E files \in Selections :
          selectedRepo # "null" /\ HandleFilesSelected(files)
    \/ StartGeneration
    \/ \E r \in 1..Len(runs) : ContentResponse(r)
    \/ \E r \in 1..Len(runs) : GenerateResponse(r)
    \/ \E r \in 1..Len(runs) : DelayElapsed(r)
    \/ GenerateFinalCode

SpecPipeline == Init /\ [][NextPipeline]_vars

\* The file explorer from application start up to the hand-over of the
\* selection.
NextExplorer ==
    \/ HandleAuthSuccess
    \/ FetchRepoContents
    \/ \E k \in 1..Len(listReqs), ok \in BOOLEAN : ListingResponse(k, ok)
    \/ \E item \in VisibleRows : ClickItem(item)
    \/ \E term \in SearchTerms : SetSearchTerm(term)
    \/ \E type \in FilterTypes : SetFilterType(type)
    \/ HandleFilesSelected(selectedFiles)

SpecExplorer == Init /\ [][NextExplorer]_vars

\* The pipeline followed by the viewer's push.
NextPublish ==
    \/ NextPipeline
    \/ PushToGitHub
    \/ \E k \in 1..Len(pushes) : RefResponse(k)
    \/ \E k \in 1..Len(pushes) : CreateResponse(k)
    \/ \E k \in 1..Len(pushes) : ExistsResponse(k)
    \/ \E k \in 1..Len(pushes) : PutResponse(k)
    \/ \E name \in BranchNames : SetBranchName(name)

SpecPublish == Init /\ [][NextPublish]_vars

\* each remote call of a push is answered, with a response or a failure
FairSpecPublish ==
    /\ SpecPublish
    /\ WF_vars(\E k \in 1..Len(pushes) : RefResponse(k))
    /\ WF_vars(\E k \in 1..Len(pushes) : CreateResponse(k))
    /\ WF_vars(\E k \in 1..Len(pushes) : ExistsResponse(k))
    /\ WF_vars(\E k \in 1..Len(pushes) : PutResponse(k))

\* the selections handed over in a session: every selectable file, in the
\* order it was ticked (the button is also tried with nothing ticked)
SessionSelections == { s \in Selections : Len(s) = Cardinality(SelectableItems) }

\* A session: the pipeline with Reset available on every step but auth, so
\* that a run can outlive the instance that started it.
NextSession ==
    \/ HandleAuthSuccess
    \/ \E files \in SessionSelections \cup {<< >>} :
          selectedRepo # "null" /\ HandleFilesSelected(files)
    \/ StartGeneration
    \/ \E r \in 1..Len(runs) : ContentResponse(r)
    \/ \E r \in 1..Len(runs) : GenerateResponse(r)
    \/ \E r \in 1..Len(runs) : DelayElapsed(r)
    \/ GenerateFinalCode
    \/ HandleReset

SpecSession == Init /\ [][NextSession]_vars

\* The whole application without Reset: the explorer hands its selection to
\* the pipeline, whose artifact the viewer pushes to the branch first shown.
NextApp ==
    \/ NextExplorer
    \/ StartGeneration
    \/ \E r \in 1..Len(runs) : ContentResponse(r)
    \/ \E r \in 1..Len(runs) : GenerateResponse(r)
    \/ \E r \in 1..Len(runs) : DelayElapsed(r)
    \/ GenerateFinalCode
    \/ PushToGitHub
    \/ \E k \in 1..Len(pushes) : RefResponse(k)
    \/ \E k \in 1..Len(pushes) : CreateResponse(k)
    \/ \E k \in 1..Len(pushes) : ExistsResponse(k)
    \/ \E k \in 1..Len(pushes) : PutResponse(k)

SpecApp == Init /\ [][NextApp]_vars


\* each remote call is answered and each timer fires
FairSpecPipeline ==
    /\ SpecPipeline
    /\ WF_vars(\E r \in 1..Len(runs) : ContentResponse(r))
    /\ WF_vars(\E r \in 1..Len(runs) : GenerateResponse(r))
    /\ WF_vars(\E r \in 1..Len(runs) : DelayElapsed(r))

----------------------------------------------------------------------------
\* Properties of the generation pipeline

\* summaries s are the summaries of the first Len(s) files of fs, in order
SummariesOf(s, fs) ==
    /\ Len(s) <= Len(fs)
    /\ \A k \in 1..Len(s) :
          s[k].fileName = fs[k].name /\ s[k].filePath = fs[k].path

IsPlaceholder(content) ==
    content # << >> /\ Head(content) = "// Mock content for "

\* C1: a run over N files appends exactly N summaries, the i-th for the i-th
\* selected file, whatever the outcomes of the content fetches and generation
\* calls: while it runs it has appended one summary per file processed so
\* far, in order, it never aborts, and the sequence it hands to
\* onTestCasesGenerated holds one summary per selected file, in order.
C1_ExactlyNSummariesInOrder ==
    /\ \A r \in 1..Len(runs) :
          /\ runs[r].pc # "failed"
          /\ Len(runs[r].summaries) =
                IF runs[r].pc = "delay" THEN runs[r].i + 1 ELSE runs[r].i
          /\ SummariesOf(runs[r].summaries, runs[r].files)
    /\ appTestCaseSummaries # << >> =>
          /\ Len(appTestCaseSummaries) = Len(appSelectedFiles)
          /\ SummariesOf(appTestCaseSummaries, appSelectedFiles)

\* a finished run over two files, every generation call of which failed
C1_Witness ==
    /\ runs = << >>
    /\ Len(appSelectedFiles) = 2
    /\ Len(appTestCaseSummaries) = 2
    /\ \A k \in 1..2 :
          appTestCaseSummaries[k].testCases =
              mockTestCases(appSelectedFiles[k].name)

\* C2: for a file with a direct-content URL whose fetch failed, the
\* placeholder text is handed on only after the contents-API call for that
\* file has been attempted (and has failed too).
C2_ApiTriedBeforePlaceholder ==
    \A r \in 1..Len(runs) :
        (/\ runs[r].pc = "awaitGen"
         /\ CurrentFile(runs[r]).download_url
         /\ IsPlaceholder(runs[r].content)) =>
            \E k \in 1..Len(runs[r].requests) :
                runs[r].requests[k] = <<"api", runs[r].i>>

\* C3 as stated: the content handed to the generation call is never empty.
C3_ContentNeverEmpty ==
    \A r \in 1..Len(runs) :
        runs[r].pc = "awaitGen" => runs[r].content # << >>

\* C3 as amended: the content handed to the generation call is the response
\* body verbatim when the direct fetch succeeded (empty when that body is
\* empty) and a non-empty placeholder naming the file in every other case.
C3_ContentBodyOrPlaceholder ==
    \A r \in 1..Len(runs) :
        runs[r].pc = "awaitGen" =>
            IF runs[r].contentResp.kind = "ok"
            THEN runs[r].content = runs[r].contentResp.body
            ELSE /\ runs[r].content # << >>
                 /\ Includes(runs[r].content, CurrentFile(runs[r]).name)

\* a generation call is pending whose content fetch got a non-2xx answer
C3_Witness ==
    \E r \in 1..Len(runs) :
        /\ runs[r].pc = "awaitGen"
        /\ runs[r].contentResp.kind = "http"
        /\ runs[r].content # << >>

\* C4: when the generation call for a file fails (transport error, non-2xx,
\* unparsable body) the summary appended for that file has testCaseCount 4,
\* four test cases each naming the file, status completed, and the run goes
\* on (it waits for the delay that leads to the next file or to the end).
C4_MockSummaryOnFailure ==
    \A r \in 1..Len(runs) :
        (runs[r].pc = "delay" /\ runs[r].lastGen \in {"http", "network", "parse"}) =>
            LET sm == Last(runs[r].summaries)
            IN  /\ Len(runs[r].summaries) = runs[r].i + 1
                /\ sm.fileName = CurrentFile(runs[r]).name
                /\ sm.testCaseCount = 4
                /\ Len(sm.testCases) = 4
                /\ sm.status = "completed"
                /\ \A k \in 1..Len(sm.testCases) :
                      Includes(sm.testCases[k].input, sm.fileName)
                /\ ENABLED DelayElapsed(r)

\* the generation call of a first file answered with an unparsable body and
\* a second file is still to come
C4_Witness ==
    \E r \in 1..Len(runs) :
        /\ runs[r].pc = "delay"
        /\ runs[r].lastGen = "parse"
        /\ runs[r].i = 0
        /\ Len(runs[r].files) = 2
        /\ Last(runs[r].summaries).testCaseCount = 4

\* a step in which a run returns
RunReturns == Len(runs') < Len(runs)

\* C5: the pipeline never fails.  Every run terminates when each remote
\* call is answered; the step in which it returns leaves isGenerating false
\* and the error message empty and hands all N summaries to
\* onTestCasesGenerated; the callback runs in no other step; no run aborts.
C5_PipelineNeverFails ==
    /\ [][RunReturns =>
            /\ isGenerating' = FALSE
            /\ genError' = << >>
            /\ Len(appTestCaseSummaries') = Len(appSelectedFiles)
            /\ SummariesOf(appTestCaseSummaries', appSelectedFiles)
            /\ testCaseSummaries' = appTestCaseSummaries']_vars
    /\ [][(appTestCaseSummaries' # appTestCaseSummaries) => RunReturns]_vars
    /\ [](\A r \in 1..Len(runs) : runs[r].pc # "failed")
    /\ [](isGenerating <=> runs # << >>)
    /\ (runs # << >>) ~> (runs = << >>)

\* a run over two files has returned and its result is on display
C5_Witness ==
    /\ currentStep = "generate"
    /\ runs = << >>
    /\ ~isGenerating
    /\ genError = << >>
    /\ Len(appSelectedFiles) = 2
    /\ testCaseSummaries = appTestCaseSummaries
    /\ Len(testCaseSummaries) = 2


----------------------------------------------------------------------------
\* Properties of the file explorer

\* number of pending listing requests for directory p
ReqCount(reqs, p) ==
    Cardinality({ k \in 1..Len(reqs) : reqs[k].kind = "folder" /\ reqs[k].path = p })

\* the children the tree holds for path p, <<"absent">> when p is not in it
ChildrenOf(tree, p) ==
    IF \E n \in NodesOf(tree) : n.path = p
    THEN (CHOOSE n \in NodesOf(tree) : n.path = p).children
    ELSE <<"absent">>

DirsIn(tree) == { n.path : n \in { x \in NodesOf(tree) : x.type = "dir" } }

PathSet(selected) == { selected[k].path : k \in 1..Len(selected) }

\* C6: expanding a directory whose listing has been merged issues no
\* listing request, here for a directory whose listing was the empty
\* sequence: no step adds a request for it.
C6_NoRefetchAfterEmptyListing ==
    [][\A p \in mergedDirs :
          RepoListing(p) = << >> => ReqCount(listReqs', p) <= ReqCount(listReqs, p)]_vars

\* C7: merging the listing response for directory A leaves the children of
\* every other directory B of the tree that is not an ancestor of A as they
\* were.
C7_MergeLeavesOtherDirsAlone ==
    [][\A k \in 1..Len(listReqs) :
          (/\ listReqs[k].kind = "folder"
           /\ listReqs[k].mounted
           /\ listReqs' = RemoveAt(listReqs, k)
           /\ currentStep' = "files") =>
              \A b \in DirsIn(fileTree) :
                  (b # listReqs[k].path /\ ~IsAncestor(b, listReqs[k].path)) =>
                      ChildrenOf(fileTree', b) = ChildrenOf(fileTree, b)]_vars

\* C8: toggling the selection of a selectable row twice in a row gives a
\* selection with the same set of paths as before; one toggle flips the
\* membership of that path and of no other.
C8_ToggleTwiceSamePaths ==
    \A item \in VisibleRows :
        ClickTarget(item) = "toggleFileSelection" =>
            LET once  == toggleFileSelection(selectedFiles, item)
                twice == toggleFileSelection(once, item)
            IN  /\ PathSet(twice) = PathSet(selectedFiles)
                /\ (item.path \in PathSet(once)) # (item.path \in PathSet(selectedFiles))
                /\ PathSet(once) \ {item.path} = PathSet(selectedFiles) \ {item.path}

\* two files are selected and both rows are on screen to be toggled again
C8_Witness ==
    /\ Len(selectedFiles) = 2
    /\ \A k \in 1..2 :
          \E item \in VisibleRows :
              /\ item.path = selectedFiles[k].path
              /\ ClickTarget(item) = "toggleFileSelection"

\* the error a click on the row raises: onClick dispatches or does nothing,
\* it neither throws nor sets the error state
ClickFailure(item) ==
    CASE ClickTarget(item) = "toggleFolder" -> "none"
      [] ClickTarget(item) = "toggleFileSelection" -> "none"
      [] OTHER -> "none"

C10_SelectionOnlyCodeFiles ==
    \A k \in 1..Len(selectedFiles) :
        selectedFiles[k].type = "file" /\ selectedFiles[k].isCodeFile

----------------------------------------------------------------------------
\* Properties of the push to GitHub

Sent(push, op) == \E j \in 1..Len(push.requests) : push.requests[j].op = op

\* createBranchIfNotExists of this push has returned or thrown
BranchStepOver(push) == push.pc \notin {"awaitRef", "awaitCreate"}

\* C11: createBranchIfNotExists never propagates a failure to pushToGitHub:
\* whatever the default-branch ref read and the branch-create call answered
\* (422 included), once it is over the existence check of the file write has
\* been sent, the push is still reported as going on until the PUT is
\* answered, and a push that has ended has sent its PUT.
C11_BranchFailureNeverPropagates ==
    \A k \in 1..Len(pushes) :
        BranchStepOver(pushes[k]) =>
            /\ Sent(pushes[k], "getContents")
            /\ pushes[k].pc \in {"awaitExists", "awaitPut", "done"}
            /\ (pushes[k].pc # "done" /\ pushes[k].mounted) =>
                   pushStatus = "pushing"
            /\ pushes[k].pc = "done" =>
                   Sent(pushes[k], "putContents") /\ pushes[k].putResp # NoResp

\* a push whose branch-create call was answered 422 has sent its PUT
C11_Witness ==
    \E k \in 1..Len(pushes) :
        /\ pushes[k].createResp = [kind |-> "http", status |-> "422"]
        /\ pushes[k].logged = << >>
        /\ Sent(pushes[k], "putContents")

\* the PUT of this push has been built and sent
PutSent(push) == push.pc \in {"awaitPut", "done"}

\* C12 as stated: the PUT body has a sha field exactly when the existence
\* check returned 2xx, and then it is the sha of that response.
C12_ShaIffCheckReturned2xx ==
    \A k \in 1..Len(pushes) :
        PutSent(pushes[k]) =>
            LET resp == pushes[k].existsResp
                ok2xx == resp.kind \in {"ok", "parse"}
            IN  /\ ("sha" \in DOMAIN pushes[k].putBody) <=> ok2xx
                /\ ok2xx => (resp.kind = "ok" /\ pushes[k].putBody.sha = resp.sha)

\* C12 as amended: the PUT body has a sha field exactly when the existence
\* check returned 2xx with a JSON body that carries a sha, and then it is
\* that sha; in every other case (no sha in the 2xx body, a 2xx body that
\* is not JSON, non-2xx, transport error) the body has no sha field.
C12_ShaIffCheckReturnedSha ==
    \A k \in 1..Len(pushes) :
        PutSent(pushes[k]) =>
            LET resp == pushes[k].existsResp
                hasSha == resp.kind = "ok" /\ Truthy(resp.sha)
            IN  /\ ("sha" \in DOMAIN pushes[k].putBody) <=> hasSha
                /\ hasSha => pushes[k].putBody.sha = resp.sha
                /\ pushes[k].putBody.content = btoa(pushes[k].code)
                /\ pushes[k].putBody.branch = pushes[k].branch

\* a PUT whose body carries the sha the existence check returned
C12_Witness ==
    \E k \in 1..Len(pushes) :
        /\ PutSent(pushes[k])
        /\ pushes[k].existsResp = [kind |-> "ok", sha |-> "filesha"]
        /\ "sha" \in DOMAIN pushes[k].putBody
        /\ pushes[k].putBody.sha = "filesha"

\* C13: a push whose PUT returned non-2xx or failed in transport ends with
\* push status error and a message carrying the reason (the message of the
\* service's error payload when it has one); push status success is reached
\* only when the PUT returned 2xx.
C13_PutFailureSurfaced ==
    /\ \A k \in 1..Len(pushes) :
          (/\ pushes[k].pc = "done"
           /\ pushes[k].mounted
           /\ pushes[k].putResp # NoResp
           /\ pushes[k].putResp.kind # "ok") =>
              /\ pushStatus = "error"
              /\ Len(pushMessage) > 1
              /\ Head(pushMessage) = "Failed to push to GitHub: "
              /\ (pushes[k].putResp.kind = "http"
                  /\ pushes[k].putResp.message # << >>) =>
                     Tail(pushMessage) = pushes[k].putResp.message
              /\ ~isLoading
    /\ pushStatus = "success" =>
          \E k \in 1..Len(pushes) :
              /\ pushes[k].pc = "done"
              /\ pushes[k].mounted
              /\ pushes[k].putResp = [kind |-> "ok"]

\* a push has ended on a PUT the service refused with a message
C13_Witness ==
    \E k \in 1..Len(pushes) :
        /\ pushes[k].pc = "done"
        /\ pushes[k].putResp.kind = "http"
        /\ pushes[k].putResp.message # << >>
        /\ pushStatus = "error"

----------------------------------------------------------------------------
\* Properties of the assembled artifact

\* the piece at position k of a text, "<end>" past its end
At(code, k) == IF k \in 1..Len(code) THEN code[k] ELSE "<end>"

\* the first position from `from` on that holds piece, 0 when there is none
IndexFrom(code, from, piece) ==
    IF \E k \in from..Len(code) : code[k] = piece
    THEN CHOOSE k \in from..Len(code) :
            /\ code[k] = piece
            /\ \A j \in from..(k - 1) : code[j] # piece
    ELSE 0

\* reads the test stubs that start at pos: the stubs read, the position
\* after the last one, and whether each was well formed
RECURSIVE ReadStubs(_, _)
ReadStubs(code, pos) ==
    IF At(code, pos) # "  test('Test case "
    THEN [ok |-> TRUE, stubs |-> << >>, next |-> pos]
    ELSE LET inEnd  == IndexFrom(code, pos + 4, "\n")
             outEnd == IndexFrom(code, inEnd + 2, "\n")
         IN  IF \/ At(code, pos + 2) # "', () => {\n"
                \/ At(code, pos + 3) # "    // Input: "
                \/ inEnd = 0
                \/ At(code, inEnd + 1) # "    // Expected Output: "
                \/ outEnd = 0
                \/ At(code, outEnd + 1) # "    // TODO: Implement test logic\n"
                \/ At(code, outEnd + 2) # "  });\n\n"
             THEN [ok |-> FALSE, stubs |-> << >>, next |-> pos]
             ELSE LET rest == ReadStubs(code, outEnd + 3)
                  IN  [ok |-> rest.ok,
                       stubs |->
                           << [number |-> At(code, pos + 1),
                               input |-> SubSeq(code, pos + 4, inEnd - 1),
                               output |-> SubSeq(code, inEnd + 2, outEnd - 1)] >>
                           \o rest.stubs,
                       next |-> rest.next]

\* reads the test-group blocks that start at pos, up to the end of the text
RECURSIVE ReadBlocks(_, _)
ReadBlocks(code, pos) ==
    IF pos > Len(code) THEN [ok |-> TRUE, blocks |-> << >>]
    ELSE LET titleEnd == IndexFrom(code, pos + 1, "\n")
             nameEnd  == IndexFrom(code, titleEnd + 2, "', () => {\n")
             body     == ReadStubs(code, nameEnd + 1)
         IN  IF \/ At(code, pos) # "// Test cases for "
                \/ titleEnd = 0
                \/ At(code, titleEnd + 1) # "describe('"
                \/ nameEnd = 0
                \/ ~body.ok
                \/ At(code, body.next) # "});\n\n"
             THEN [ok |-> FALSE, blocks |-> << >>]
             ELSE LET rest == ReadBlocks(code, body.next + 1)
                  IN  [ok |-> rest.ok,
                       blocks |->
                           << [title |-> SubSeq(code, pos + 1, titleEnd - 1),
                               name |-> SubSeq(code, titleEnd + 2, nameEnd - 1),
                               stubs |-> body.stubs] >> \o rest.blocks]

\* the structure of an artifact: its header line and its blocks
ReadArtifact(code) ==
    IF At(code, 1)
         # "// Generated Test Cases\n// Generated by Workik AI Test Generator\n\n"
    THEN [ok |-> FALSE, blocks |-> << >>]
    ELSE ReadBlocks(code, 2)

\* the blocks the summaries call for
BlocksFor(summaries) ==
    [k \in 1..Len(summaries) |->
        [title |-> summaries[k].fileName,
         name |-> summaries[k].fileName,
         stubs |-> [j \in 1..Len(summaries[k].testCases) |->
                      [number |-> NumStr(j),
                       input |-> summaries[k].testCases[j].input,
                       output |-> summaries[k].testCases[j].output]]]]

\* C14: the artifact generateFinalCode hands over reads back as the header
\* followed by exactly one describe block per summary, in summary order,
\* each holding exactly one stub per test case of its summary, in test-case
\* order and numbered from 1, with that test case's input and output; a
\* summary without test cases gives a block without stubs.
C14_ArtifactMatchesSummaries ==
    [][(currentStep = "generate" /\ currentStep' = "view") =>
          /\ ReadArtifact(generatedCode').ok
          /\ ReadArtifact(generatedCode').blocks = BlocksFor(testCaseSummaries)]_vars

\* the viewer shows an artifact of two blocks, one without stubs and one
\* with two
C14_Witness ==
    /\ currentStep = "view"
    /\ ReadArtifact(generatedCode).ok
    /\ Len(ReadArtifact(generatedCode).blocks) = 2
    /\ Len(ReadArtifact(generatedCode).blocks[1].stubs) = 0
    /\ Len(ReadArtifact(generatedCode).blocks[2].stubs) = 2
    /\ ReadArtifact(generatedCode).blocks = BlocksFor(appTestCaseSummaries)

----------------------------------------------------------------------------
\* Properties of a session with Reset

\* the run is waiting for the answer to a content fetch or a generation call
AwaitsRequest(run) == run.pc \in {"awaitDirect", "awaitApi", "awaitGen"}

RequestsInFlight == Cardinality({ r \in 1..Len(runs) : AwaitsRequest(runs[r]) })

\* C15: at most one pipeline request (content fetch or generation call) is
\* in flight at any moment, and a run sends the first request for a file
\* only after the summaries of all earlier files have been appended; Reset
\* and a run started afterwards included.
C15_OneRequestInFlight ==
    /\ RequestsInFlight <= 1
    /\ \A r \in 1..Len(runs) :
          AwaitsRequest(runs[r]) => Len(runs[r].summaries) = runs[r].i

IsPrefix(s, t) == Len(s) <= Len(t) /\ SubSeq(t, 1, Len(s)) = s

MountedRuns == { r \in 1..Len(runs) : runs[r].mounted }

\* what is on screen is the array of the one run of the mounted instance,
\* and that run asks for file i only with i summaries on screen
ObservableIsRunLocal ==
    /\ Cardinality(MountedRuns) <= 1
    /\ \A r \in MountedRuns :
          /\ testCaseSummaries = runs[r].summaries
          /\ AwaitsRequest(runs[r]) => Len(testCaseSummaries) = runs[r].i

\* C16: while a run is in progress the summaries on screen only grow, by
\* one appended summary at a time, each value a prefix of the next; summary
\* i is on screen before the content fetch for file i+1 is issued; starting
\* a run empties the sequence first, and what is on screen is always the
\* sequence of the current run alone, whatever earlier runs still do.
C16_SummariesGrowByAppending ==
    [][/\ ObservableIsRunLocal'
       /\ (currentStep = "generate" /\ currentStep' = "generate"
           /\ isGenerating) =>
              /\ IsPrefix(testCaseSummaries, testCaseSummaries')
              /\ Len(testCaseSummaries') <= Len(testCaseSummaries) + 1
       /\ (~isGenerating /\ isGenerating') => testCaseSummaries' = << >>]_vars

\* a run left behind by Reset holds two summaries while the run of the
\* mounted instance has put its first summary on screen and waits for the
\* generation call of its second file
C16_Witness ==
    \E a, b \in 1..Len(runs) :
        /\ ~runs[a].mounted
        /\ Len(runs[a].summaries) = 2
        /\ runs[b].mounted
        /\ runs[b].i = 1
        /\ runs[b].pc = "awaitGen"
        /\ Len(testCaseSummaries) = 1
        /\ testCaseSummaries # SubSeq(runs[a].summaries, 1, 1)

\* C20: from Reset until the next authentication the persisted credential
\* is absent and the application state is the initial one, whatever answers
\* to earlier requests arrive in between.
C20_ResetStateStays ==
    currentStep = "auth" =>
        /\ storedToken = ""
        /\ githubToken = ""
        /\ selectedRepo = "null"
        /\ appSelectedFiles = << >>
        /\ appTestCaseSummaries = << >>
        /\ generatedCode = << >>

----------------------------------------------------------------------------
\* Properties of the root load, of collapsing and of the selection's frame

\* the explorer instance stays the same over the step
SameExplorer == currentStep = "files" /\ currentStep' = "files"

\* tree holds exactly the entries of listing, one node per entry
HoldsExactly(tree, listing) ==
    /\ Len(tree) = Len(listing)
    /\ \A k \in 1..Len(listing) :
          \E j \in 1..Len(tree) :
              /\ tree[j].path = listing[k].path
              /\ tree[j].name = listing[k].name
              /\ tree[j].type = listing[k].type
              /\ tree[j].children = << >>

\* C17: when the root listing request is answered, either it failed and
\* then the tree is empty, the error is set and the loading flag is clear,
\* or it succeeded and then the tree holds exactly the entries of the root
\* listing, the error is empty and the loading flag is clear.
C17_RootLoadOutcome ==
    [][\A k \in 1..Len(listReqs) :
          (/\ listReqs[k].kind = "root"
           /\ listReqs[k].mounted
           /\ SameExplorer
           /\ listReqs' = RemoveAt(listReqs, k)) =>
              /\ ~isLoading'
              /\ \/ /\ fileTree' = << >>
                    /\ feError' = <<"Failed to fetch repository contents">>
                 \/ /\ HoldsExactly(fileTree', RepoListing(""))
                    /\ feError' = << >>]_vars

\* the root listing request has failed
C17_Witness ==
    /\ currentStep = "files"
    /\ feEffectRan
    /\ listReqs = << >>
    /\ fileTree = << >>
    /\ feError # << >>
    /\ ~isLoading

\* C18: a step that collapses an expanded directory removes that one path
\* from the expanded set and leaves the tree, the selection, the other
\* markers, the pending requests, the search term and the filter as they
\* were; expanded again, the directory shows the rows it showed before.
C18_CollapseOnlyClearsMarker ==
    [][(/\ SameExplorer
        /\ expandedFolders' # expandedFolders
        /\ expandedFolders' \subseteq expandedFolders) =>
           /\ \E p \in expandedFolders :
                 /\ expandedFolders' = expandedFolders \ {p}
                 /\ RowsOf(filterFiles(fileTree', searchTerm', filterType'),
                           expandedFolders' \cup {p}) = VisibleRows
           /\ fileTree' = fileTree
           /\ selectedFiles' = selectedFiles
           /\ listReqs' = listReqs
           /\ UNCHANGED <<searchTerm, filterType, feError, isLoading>>]_vars

\* src has been collapsed with its fetched children kept in the tree while
\* docs is still expanded
C18_Witness ==
    /\ currentStep = "files"
    /\ lastClick = "toggleFolder"
    /\ "src" \in mergedDirs
    /\ "src" \notin expandedFolders
    /\ "docs" \in expandedFolders
    /\ ChildrenOf(fileTree, "src") # << >>
    /\ listReqs = << >>

\* C19: within one explorer instance the selection changes only by
\* toggleFileSelection of a row on screen: the root load, expanding and
\* collapsing, merging a listing, the search term and the filter type leave
\* it as it is, and nothing prunes an entry whose node has left the tree or
\* the screen.
C19_SelectionChangesOnlyByToggle ==
    [][(SameExplorer /\ selectedFiles' # selectedFiles) =>
          /\ lastClick' = "toggleFileSelection"
          /\ \E item \in VisibleRows :
                /\ ClickTarget(item) = "toggleFileSelection"
                /\ selectedFiles' = toggleFileSelection(selectedFiles, item)
          /\ UNCHANGED <<fileTree, expandedFolders, searchTerm, filterType,
                         listReqs>>]_vars

\* a selected file whose node is no longer in the tree, and a selected file
\* that the search term keeps off the screen
C19_Witness ==
    /\ currentStep = "files"
    /\ Len(selectedFiles) = 2
    /\ \E k \in 1..2 :
          selectedFiles[k].path \notin { n.path : n \in NodesOf(fileTree) }
    /\ \A k \in 1..2 :
          selectedFiles[k].path \notin { n.path : n \in VisibleRows }
    /\ searchTerm # << >>

----------------------------------------------------------------------------
\* Properties of the remote calls as a whole

NoRepeat(s) == \A a, b \in 1..Len(s) : a # b => s[a] # s[b]

OpsOf(push) == [j \in 1..Len(push.requests) |-> push.requests[j].op]

\* C21: no remote call is repeated without a user action: a run sends each
\* file's content fetch and generation call at most once, a push sends each
\* of its four calls at most once, and a listing request is added only by
\* the step of a click that expands a directory or by the mount effect, one
\* at a time; a step that receives an answer adds none.
C21_NoAutomaticRetry ==
    [][/\ \A r \in 1..Len(runs') : NoRepeat(runs'[r].requests)
       /\ \A k \in 1..Len(pushes') : NoRepeat(OpsOf(pushes'[k]))
       /\ Len(listReqs') > Len(listReqs) =>
              /\ Len(listReqs') = Len(listReqs) + 1
              /\ SubSeq(listReqs', 1, Len(listReqs)) = listReqs
              /\ \/ /\ Last(listReqs').kind = "root"
                    /\ ~feEffectRan /\ feEffectRan'
                 \/ /\ Last(listReqs').kind = "folder"
                    /\ lastClick' = "toggleFolder"
                    /\ expandedFolders' =
                          expandedFolders \cup {Last(listReqs').path}
                    /\ Last(listReqs').path \notin expandedFolders]_vars

\* a push has ended after its ref read and its PUT both failed, with the
\* three calls it sent, each sent once
C21_Witness ==
    \E k \in 1..Len(pushes) :
        /\ pushes[k].pc = "done"
        /\ pushes[k].refResp.kind = "network"
        /\ pushes[k].putResp.kind = "network"
        /\ OpsOf(pushes[k]) = <<"getRef", "getContents", "putContents">>

----------------------------------------------------------------------------
\* Properties of the merge of a listing

\* C22: when the listing of directory D is merged for the first time, every
\* node of the tree other than D, the ancestors of D and what was below D
\* is still in the tree and is the object it was: updateTree built no new
\* object for it.
C22_MergeKeepsOtherNodesByIdentity ==
    [][\A k \in 1..Len(listReqs) :
          (/\ listReqs[k].kind = "folder"
           /\ listReqs[k].mounted
           /\ SameExplorer
           /\ listReqs' = RemoveAt(listReqs, k)
           /\ listReqs[k].path \notin mergedDirs
           /\ listReqs[k].path \in mergedDirs') =>
              \A n \in NodesOf(fileTree) :
                  (/\ n.path # listReqs[k].path
                   /\ ~IsAncestor(n.path, listReqs[k].path)
                   /\ ~IsAncestor(listReqs[k].path, n.path)) =>
                      /\ n \in NodesOf(fileTree')
                      /\ n.path \notin updateTreeRebuilt(listReqs[k].tree,
                                                        listReqs[k].path)]_vars

----------------------------------------------------------------------------
\* Properties of the order of a push's calls

\* the calls of a push are in order, and each carries what the claim says
PushCallsInOrder(push) ==
    /\ \/ IsPrefix(OpsOf(push),
                         <<"getRef", "createRef", "getContents", "putContents">>)
       \/ IsPrefix(OpsOf(push), <<"getRef", "getContents", "putContents">>)
    /\ \A j \in 1..Len(push.requests) :
          LET req == push.requests[j]
          IN  CASE req.op = "createRef" ->
                     /\ push.refResp.kind = "ok"
                     /\ req.sha = push.refResp.sha
                     /\ req.ref = <<"refs/heads/">> \o push.branch
                [] req.op = "getContents" -> req.ref = push.branch
                [] req.op = "putContents" ->
                     /\ req.body.branch = push.branch
                     /\ push.existsResp # NoResp
                [] OTHER -> TRUE
    /\ push.pc = "awaitCreate" <=> Last(OpsOf(push)) = "createRef"
    /\ push.pc = "awaitExists" <=> Last(OpsOf(push)) = "getContents"
    /\ push.pc \in {"awaitPut", "done"} => Sent(push, "getContents")
    /\ (push.pc = "awaitPut" \/ push.putResp # NoResp) <=>
          Last(OpsOf(push)) = "putContents"

\* C23: within one push the calls are sent in the order ref read, branch
\* create, existence check, PUT, each after the answer to the one before;
\* the branch create is sent only after a successful ref read, with the
\* sha that read returned and for the branch name that was in the field
\* when the button was pressed; the existence check and the PUT name that
\* branch too; the PUT is sent once, after the existence check was
\* answered.
C23_PushCallOrder ==
    [][/\ \A k \in 1..Len(pushes') : PushCallsInOrder(pushes'[k])
       /\ (pushStatus # "pushing" /\ pushStatus' = "pushing") =>
              /\ Last(pushes').branch = branchName
              /\ OpsOf(Last(pushes')) = <<"getRef">>]_vars

\* a push for a branch name the user entered has sent all four calls, and
\* the field has been edited again since
C23_Witness ==
    \E k \in 1..Len(pushes) :
        /\ OpsOf(pushes[k]) =
              <<"getRef", "createRef", "getContents", "putContents">>
        /\ pushes[k].branch = <<"tests">>
        /\ pushes[k].mounted
        /\ branchName # pushes[k].branch

----------------------------------------------------------------------------
\* Properties of the order of the tree

\* the UTF-16 code unit of a character of a name
CodeUnit(c) ==
    IF IsUpper(c) THEN 64 + (CHOOSE k \in 1..Len(Uppers) : Uppers[k] = c)
    ELSE IF \E k \in 1..Len(Lowers) : Lowers[k] = c
         THEN 96 + (CHOOSE k \in 1..Len(Lowers) : Lowers[k] = c)
         ELSE IF c = "/" THEN 47 ELSE 46

\* a sorts strictly before b by code units (case-sensitive lexicographic)
RECURSIVE CodeUnitLess(_, _)
CodeUnitLess(a, b) ==
    IF b = << >> THEN FALSE
    ELSE IF a = << >> THEN TRUE
    ELSE IF CodeUnit(Head(a)) # CodeUnit(Head(b))
         THEN CodeUnit(Head(a)) < CodeUnit(Head(b))
         ELSE CodeUnitLess(Tail(a), Tail(b))

\* the sibling groups of a tree: the root listing and every children list
SiblingGroups(tree) == {tree} \cup { n.children : n \in NodesOf(tree) }

\* a group has its directories first and, within the same kind, its names
\* ascending under Less
GroupOrdered(g, Less(_, _)) ==
    \A i, j \in 1..Len(g) :
        i < j =>
            /\ ~(g[i].type # "dir" /\ g[j].type = "dir")
            /\ (g[i].type = "dir" <=> g[j].type = "dir") =>
                  Less(g[i].name, g[j].name)

RECURSIVE TreePaths(_)
TreePaths(items) ==
    IF items = << >> THEN << >>
    ELSE <<Head(items).path>> \o TreePaths(Head(items).children)
         \o TreePaths(Tail(items))

PathsDistinct(tree) ==
    \A i, j \in 1..Len(TreePaths(tree)) :
        TreePaths(tree)[i] = TreePaths(tree)[j] => i = j

----------------------------------------------------------------------------
\* Properties of the current step

\* the step taken is App.handleReset
IsReset ==
    /\ currentStep # "auth"
    /\ currentStep' = "auth"
    /\ githubToken' = "" /\ selectedRepo' = "null" /\ storedToken' = ""
    /\ appSelectedFiles' = << >> /\ appTestCaseSummaries' = << >>
    /\ generatedCode' = << >>

\* the step changes as the claim allows
StepChangeAllowed ==
    currentStep' # currentStep =>
        \/ currentStep = "auth" /\ currentStep' = "files" /\ githubToken' # ""
        \/ /\ currentStep = "files" /\ currentStep' = "generate"
           /\ Len(appSelectedFiles') > 0
        \/ /\ currentStep = "generate" /\ currentStep' = "view"
           /\ Len(testCaseSummaries) > 0
           /\ ~isGenerating
           /\ MountedRuns = {}
        \/ IsReset

----------------------------------------------------------------------------
\* Properties of the listing requests

\* this step issues a root listing request
RootRequestIssued ==
    /\ Len(listReqs') = Len(listReqs) + 1
    /\ Last(listReqs').kind = "root"

\* C26: a root listing request is issued only when a credential and a
\* selected repository are both present; while the files step is shown
\* without a repository (start-up with a persisted credential) there is no
\* listing request, the tree is empty and the error flag is not set.
C26_RootListingNeedsTokenAndRepo ==
    /\ [](currentStep = "files" /\ selectedRepo = "null" =>
            /\ githubToken = Token
            /\ listReqs = << >>
            /\ fileTree = << >>
            /\ feError = << >>
            /\ ~isLoading)
    /\ [][RootRequestIssued => githubToken # "" /\ selectedRepo # "null"]_vars

\* started with a persisted credential: the explorer's effect has run and
\* the user has typed into the search box
C26_Witness ==
    /\ currentStep = "files"
    /\ selectedRepo = "null"
    /\ githubToken = Token
    /\ feEffectRan
    /\ searchTerm # << >>

\* the mounted request k for a directory never merged is answered in this
\* step without a merge: its listing failed
ExpandFailed(k) ==
    /\ listReqs[k].kind = "folder"
    /\ listReqs[k].mounted
    /\ listReqs' = RemoveAt(listReqs, k)
    /\ listReqs[k].path \notin mergedDirs'

C28_OneListingRequestPerDirectory ==
    \A i, j \in 1..Len(listReqs) :
        (/\ listReqs[i].kind = "folder" /\ listReqs[j].kind = "folder"
         /\ listReqs[i].mounted /\ listReqs[j].mounted
         /\ listReqs[i].path = listReqs[j].path) => i = j

----------------------------------------------------------------------------
\* Properties of the selection

\* no path occurs twice in the sequence of files
DistinctPaths(files) ==
    \A i, j \in 1..Len(files) : files[i].path = files[j].path => i = j

\* the run has taken its files one after the other from the front: its
\* requests are for ascending positions up to the file it is at, and its
\* summaries are those of the files before that one, in order
InSelectionOrder(run) ==
    /\ \A a, b \in 1..Len(run.requests) :
          a < b => run.requests[a][2] <= run.requests[b][2]
    /\ \A a \in 1..Len(run.requests) : run.requests[a][2] <= run.i
    /\ Len(run.summaries) \in {run.i, run.i + 1}
    /\ \A j \in 1..Len(run.summaries) :
          run.summaries[j].filePath = run.files[j].path

\* C29: the selection never holds a path twice; a click on a file either
\* appends it at the end or removes it and keeps the others in their order;
\* the selection is handed over as it is, and a run takes the files in that
\* order.
C29_SelectionOrder ==
    [][/\ DistinctPaths(selectedFiles')
       /\ (SameExplorer /\ selectedFiles' # selectedFiles) =>
             \/ \E k \in 1..Len(selectedFiles) :
                   selectedFiles' = RemoveAt(selectedFiles, k)
             \/ /\ Len(selectedFiles') = Len(selectedFiles) + 1
                /\ SubSeq(selectedFiles', 1, Len(selectedFiles)) = selectedFiles
       /\ (currentStep = "files" /\ currentStep' = "generate") =>
             appSelectedFiles' = selectedFiles
       /\ \A r \in 1..Len(runs') :
             /\ runs'[r].files = appSelectedFiles'
             /\ InSelectionOrder(runs'[r])]_vars

\* a run is at the second file of a selection in which a.js, the first file
\* of the tree, comes last
C29_Witness ==
    \E r \in 1..Len(runs) :
        /\ Len(runs[r].files) = 2
        /\ runs[r].files[2].path = "a.js"
        /\ runs[r].i = 1
        /\ Len(runs[r].summaries) = 1
        /\ runs[r].summaries[1].filePath = runs[r].files[1].path

----------------------------------------------------------------------------
\* Properties of the push as a whole

\* the pushes that have not come to their end
LivePushes(ps) == { k \in 1..Len(ps) : ps[k].pc # "done" }

\* C30: at most one push is in flight, and the status is 'pushing' exactly
\* while one is; no push starts while the status is 'pushing'; a push that
\* ends sets the status to 'success' or 'error' and clears the loading
\* flag, and the status then stays until the next push starts; with every
\* remote call answered, a status of 'pushing' is always followed by
\* 'success' or 'error' with the loading flag cleared.
C30_OnePushAtATime ==
    /\ [](/\ Cardinality(LivePushes(pushes)) <= 1
          /\ pushStatus = "pushing" <=> LivePushes(pushes) # {}
          /\ pushStatus = "pushing" => isLoading)
    /\ [][/\ Len(pushes') > 0 /\ Last(pushes').pc = "awaitRef"
              /\ (pushes = << >> \/ Last(pushes') # Last(pushes))
              => pushStatus # "pushing" /\ pushStatus' = "pushing"
          /\ (pushStatus = "pushing" /\ pushStatus' # "pushing") =>
                /\ pushStatus' \in {"success", "error"}
                /\ ~isLoading'
                /\ LivePushes(pushes') = {}
          /\ (pushStatus \in {"success", "error"} /\ pushStatus' # pushStatus)
                => pushStatus' = "pushing"]_vars
    /\ (pushStatus = "pushing") ~>
          (pushStatus \in {"success", "error"} /\ ~isLoading)

\* a push to the branch the user entered has ended in 'success' with the
\* loading flag cleared, and no other push is left
C30_Witness ==
    /\ pushStatus = "success"
    /\ ~isLoading
    /\ Len(pushes) = 1
    /\ pushes[1].pc = "done"
    /\ pushes[1].branch = <<"tests">>
    /\ pushes[1].putResp # NoResp

====
